---- MODULE Spec2Model ----
(***************************************************************************)
(* SpendSense: the in-memory ledger of expense groups (src/expense.cpp)    *)
(* and its greedy settlement.                                              *)
(*                                                                         *)
(* Amounts are C++ doubles.  They are modelled as fixed-point integers in  *)
(* thousandths of a currency unit (90.00 is 90000, the dust threshold      *)
(* 0.005 is 5, the tolerance 0.01 is 10); a division rounds to a           *)
(* representable value, as the double division does.                       *)
(*                                                                         *)
(* A '|'-separated string is modelled as the sequence of its segments      *)
(* ("a||b" is <<"a", "", "b">>, the empty string is <<>>).  An expense id, *)
(* the decimal string of the counter, is the sequence of its digits.       *)
(***************************************************************************)
EXTENDS Integers, Sequences, FiniteSets

VARIABLES
    groups,         \* map<string, Group> groups
    groupCounters,  \* map<string, int> groupCounters
    ret,            \* the last call (op, group, expenseId) and what it returned
    issued,         \* history: per group, the ids returned by successful adds
    calls           \* history: number of mutating calls made so far

vars == <<groups, groupCounters, ret, issued, calls>>

----------------------------------------------------------------------------
(* Bounds and program constants *)

MaxCalls == 4

Dust == 5       \* 0.005
Eps == 10       \* 0.01

----------------------------------------------------------------------------
(* Input universes *)

GroupNames == {"G", "H"}

\* std::string operator< on the member names used here
NameOrder == <<"Alice", "Bob", "Carol", "Zed">>

NameRank(n) == CHOOSE k \in 1..Len(NameOrder) : NameOrder[k] = n

NameLess(a, b) == NameRank(a) < NameRank(b)

----------------------------------------------------------------------------
(* Helpers *)

\* sum of a sequence of numbers, left to right
RECURSIVE SumSeq(_)
SumSeq(s) == IF s = <<>> THEN 0 ELSE SumSeq(SubSeq(s, 1, Len(s) - 1)) + s[Len(s)]

\* the elements of a sequence
Range(s) == {s[k] : k \in 1..Len(s)}

Abs(x) == IF x < 0 THEN -x ELSE x

Min(a, b) == IF a < b THEN a ELSE b

\* std::string::empty() of a '|'-separated string
StrEmpty(s) == s = <<>>

\* splitPipe: the segments between '|', empty ones dropped
splitPipe(s) == SelectSeq(s, LAMBDA t : t # "")

\* approxEqual(a, b, eps = 0.01)
approxEqual(a, b) == Abs(a - b) <= Eps

\* std::to_string(int) for a non-negative int, as its sequence of digits
RECURSIVE to_string(_)
to_string(n) == IF n < 10 THEN <<n>> ELSE Append(to_string(n \div 10), n % 10)

\* the number a digit string denotes (inverse of to_string on its image)
RECURSIVE IdValue(_)
IdValue(s) == IF s = <<>> THEN 0 ELSE 10 * IdValue(SubSeq(s, 1, Len(s) - 1)) + s[Len(s)]

\* std::stod on the share tokens used here: the value of the numeric prefix,
\* or a throw (ok = FALSE) when the token has none
Stod(t) ==
    CASE t = "30" -> [ok |-> TRUE, v |-> 30000]
      [] t = "40" -> [ok |-> TRUE, v |-> 40000]
      [] t = "45" -> [ok |-> TRUE, v |-> 45000]
      [] t = "90" -> [ok |-> TRUE, v |-> 90000]
      [] t = "60.003" -> [ok |-> TRUE, v |-> 60003]
      [] t = "29.997" -> [ok |-> TRUE, v |-> 29997]
      [] t = "45x" -> [ok |-> TRUE, v |-> 45000]
      [] OTHER -> [ok |-> FALSE, v |-> 0]

\* the share-parsing loop: the values pushed before the first token that
\* throws, and whether one threw
RECURSIVE ParseShares(_, _)
ParseShares(tokens, acc) ==
    IF tokens = <<>> THEN [ok |-> TRUE, shares |-> acc]
    ELSE IF ~Stod(Head(tokens)).ok THEN [ok |-> FALSE, shares |-> acc]
    ELSE ParseShares(Tail(tokens), Append(acc, Stod(Head(tokens)).v))

\* vector::assign(n, v)
Assign(n, v) == [k \in 1..n |-> v]

validateMembersInGroup(g, members) == \A k \in 1..Len(members) : members[k] \in Range(g.members)

\* the returned JSON, by its fields
Result(op, g, expenseId, status, msg, id) ==
    [op |-> op, group |-> g, expenseId |-> expenseId, status |-> status, msg |-> msg, id |-> id]

Ok(op, g, expenseId) == Result(op, g, expenseId, "ok", "", <<>>)

Error(op, g, expenseId, msg) == Result(op, g, expenseId, "error", msg, <<>>)

----------------------------------------------------------------------------
Init ==
    /\ groups = <<>>
    /\ groupCounters = <<>>
    /\ ret = Ok("none", "", <<>>)
    /\ issued = <<>>
    /\ calls = 0

\* map operator[] assignment
Put(m, k, v) == [n \in DOMAIN m \cup {k} |-> IF n = k THEN v ELSE m[n]]

\* map operator[]: the entry, value-initialised to zero when absent
At(m, k) == IF k \in DOMAIN m THEN m[k] ELSE 0

\* createGroup without the check for an existing name
createGroupOverwrite(groupName, members_str) ==
    /\ calls < MaxCalls
    /\ calls' = calls + 1
    /\ IF groupName = ""
       THEN /\ ret' = Error("createGroup", groupName, <<>>, "groupName empty")
            /\ UNCHANGED <<groups, groupCounters, issued>>
       ELSE /\ groups' = Put(groups, groupName,
                             [name |-> groupName, members |-> splitPipe(members_str),
                              expenses |-> <<>>])
            /\ groupCounters' = Put(groupCounters, groupName, 1)
            /\ issued' = Put(issued, groupName, <<>>)
            /\ ret' = Ok("createGroup", groupName, <<>>)

createGroup(groupName, members_str) ==
    /\ calls < MaxCalls
    /\ calls' = calls + 1
    /\ IF groupName = ""
       THEN /\ ret' = Error("createGroup", groupName, <<>>, "groupName empty")
            /\ UNCHANGED <<groups, groupCounters, issued>>
       ELSE IF groupName \in DOMAIN groups
       THEN /\ ret' = Error("createGroup", groupName, <<>>, "group already exists")
            /\ UNCHANGED <<groups, groupCounters, issued>>
       ELSE /\ groups' = Put(groups, groupName,
                             [name |-> groupName, members |-> splitPipe(members_str),
                              expenses |-> <<>>])
            /\ groupCounters' = Put(groupCounters, groupName, 1)
            /\ issued' = Put(issued, groupName, <<>>)
            /\ ret' = Ok("createGroup", groupName, <<>>)

\* AddOutcome with the id taken from the number of stored expenses
AddOutcomeSizeId(g, counter, f, payer, members_str, shares_str) ==
    LET members == splitPipe(members_str)
        e0 == [id |-> to_string(Len(g.expenses) + 1), name |-> f.name, category |-> f.category,
               amount |-> f.amount, payer |-> payer, date |-> f.date,
               members |-> members, shares |-> <<>>]
        parsed == IF StrEmpty(shares_str) THEN [ok |-> TRUE, shares |-> <<>>]
                  ELSE ParseShares(splitPipe(shares_str), <<>>)
        shares == IF parsed.shares = <<>>
                  THEN Assign(Len(members), f.amount \div Len(members))
                  ELSE parsed.shares
        total == SumSeq(shares)
    IN  IF members = <<>>
        THEN [stored |-> FALSE, e |-> e0, status |-> "error", msg |-> "members empty"]
        ELSE IF ~validateMembersInGroup(g, members)
        THEN [stored |-> FALSE, e |-> e0, status |-> "error",
              msg |-> "one or more members not in group"]
        ELSE IF ~parsed.ok
        THEN [stored |-> FALSE, e |-> e0, status |-> "error", msg |-> "invalid shares format"]
        ELSE IF ~StrEmpty(shares_str) /\ Len(parsed.shares) # Len(members)
        THEN [stored |-> FALSE, e |-> e0, status |-> "error",
              msg |-> "shares count mismatch members count"]
        ELSE IF ~approxEqual(total, f.amount)
        THEN [stored |-> TRUE, e |-> [e0 EXCEPT !.shares = shares], status |-> "warning",
              msg |-> "total shares do not match amount"]
        ELSE [stored |-> TRUE, e |-> [e0 EXCEPT !.shares = shares], status |-> "ok", msg |-> ""]

\* AddOutcome with the expense pushed before the share count is checked
AddOutcomePushEarly(g, counter, f, payer, members_str, shares_str) ==
    LET members == splitPipe(members_str)
        e0 == [id |-> to_string(counter), name |-> f.name, category |-> f.category,
               amount |-> f.amount, payer |-> payer, date |-> f.date,
               members |-> members, shares |-> <<>>]
        parsed == IF StrEmpty(shares_str) THEN [ok |-> TRUE, shares |-> <<>>]
                  ELSE ParseShares(splitPipe(shares_str), <<>>)
        shares == IF parsed.shares = <<>>
                  THEN Assign(Len(members), f.amount \div Len(members))
                  ELSE parsed.shares
        total == SumSeq(shares)
    IN  IF members = <<>>
        THEN [stored |-> FALSE, e |-> e0, status |-> "error", msg |-> "members empty"]
        ELSE IF ~validateMembersInGroup(g, members)
        THEN [stored |-> FALSE, e |-> e0, status |-> "error",
              msg |-> "one or more members not in group"]
        ELSE IF ~parsed.ok
        THEN [stored |-> FALSE, e |-> e0, status |-> "error", msg |-> "invalid shares format"]
        ELSE IF ~StrEmpty(shares_str) /\ Len(parsed.shares) # Len(members)
        THEN [stored |-> TRUE, e |-> [e0 EXCEPT !.shares = parsed.shares], status |-> "error",
              msg |-> "shares count mismatch members count"]
        ELSE IF ~approxEqual(total, f.amount)
        THEN [stored |-> TRUE, e |-> [e0 EXCEPT !.shares = shares], status |-> "warning",
              msg |-> "total shares do not match amount"]
        ELSE [stored |-> TRUE, e |-> [e0 EXCEPT !.shares = shares], status |-> "ok", msg |-> ""]

\* AddOutcome returning the warning without the push_back
AddOutcomeWarnNoStore(g, counter, f, payer, members_str, shares_str) ==
    LET members == splitPipe(members_str)
        e0 == [id |-> to_string(counter), name |-> f.name, category |-> f.category,
               amount |-> f.amount, payer |-> payer, date |-> f.date,
               members |-> members, shares |-> <<>>]
        parsed == IF StrEmpty(shares_str) THEN [ok |-> TRUE, shares |-> <<>>]
                  ELSE ParseShares(splitPipe(shares_str), <<>>)
        shares == IF parsed.shares = <<>>
                  THEN Assign(Len(members), f.amount \div Len(members))
                  ELSE parsed.shares
        total == SumSeq(shares)
    IN  IF members = <<>>
        THEN [stored |-> FALSE, e |-> e0, status |-> "error", msg |-> "members empty"]
        ELSE IF ~validateMembersInGroup(g, members)
        THEN [stored |-> FALSE, e |-> e0, status |-> "error",
              msg |-> "one or more members not in group"]
        ELSE IF ~parsed.ok
        THEN [stored |-> FALSE, e |-> e0, status |-> "error", msg |-> "invalid shares format"]
        ELSE IF ~StrEmpty(shares_str) /\ Len(parsed.shares) # Len(members)
        THEN [stored |-> FALSE, e |-> e0, status |-> "error",
              msg |-> "shares count mismatch members count"]
        ELSE IF ~approxEqual(total, f.amount)
        THEN [stored |-> FALSE, e |-> [e0 EXCEPT !.shares = shares], status |-> "warning",
              msg |-> "total shares do not match amount"]
        ELSE [stored |-> TRUE, e |-> [e0 EXCEPT !.shares = shares], status |-> "ok", msg |-> ""]

\* the expense addGroupExpense builds, and how far it gets: the id is taken
\* (and the counter advanced) before anything is validated
AddOutcome(g, counter, f, payer, members_str, shares_str) ==
    LET members == splitPipe(members_str)
        e0 == [id |-> to_string(counter), name |-> f.name, category |-> f.category,
               amount |-> f.amount, payer |-> payer, date |-> f.date,
               members |-> members, shares |-> <<>>]
        parsed == IF StrEmpty(shares_str) THEN [ok |-> TRUE, shares |-> <<>>]
                  ELSE ParseShares(splitPipe(shares_str), <<>>)
        shares == IF parsed.shares = <<>>
                  THEN Assign(Len(members), f.amount \div Len(members))
                  ELSE parsed.shares
        total == SumSeq(shares)
    IN  IF members = <<>>
        THEN [stored |-> FALSE, e |-> e0, status |-> "error", msg |-> "members empty"]
        ELSE IF ~validateMembersInGroup(g, members)
        THEN [stored |-> FALSE, e |-> e0, status |-> "error",
              msg |-> "one or more members not in group"]
        ELSE IF ~parsed.ok
        THEN [stored |-> FALSE, e |-> e0, status |-> "error", msg |-> "invalid shares format"]
        ELSE IF ~StrEmpty(shares_str) /\ Len(parsed.shares) # Len(members)
        THEN [stored |-> FALSE, e |-> e0, status |-> "error",
              msg |-> "shares count mismatch members count"]
        ELSE IF ~approxEqual(total, f.amount)
        THEN [stored |-> TRUE, e |-> [e0 EXCEPT !.shares = shares], status |-> "warning",
              msg |-> "total shares do not match amount"]
        ELSE [stored |-> TRUE, e |-> [e0 EXCEPT !.shares = shares], status |-> "ok", msg |-> ""]

\* addGroupExpense advancing the counter before it looks the group up
addGroupExpenseCountFirst(groupName, f, payer, members_str, shares_str) ==
    /\ calls < MaxCalls
    /\ calls' = calls + 1
    /\ groupCounters' = Put(groupCounters, groupName, At(groupCounters, groupName) + 1)
    /\ IF groupName \notin DOMAIN groups
       THEN /\ ret' = Error("addGroupExpense", groupName, <<>>, "group not found")
            /\ UNCHANGED <<groups, issued>>
       ELSE LET g == groups[groupName]
                o == AddOutcome(g, groupCounters[groupName], f, payer, members_str, shares_str)
            IN  /\ groups' = IF o.stored
                             THEN [groups EXCEPT ![groupName].expenses = Append(@, o.e)]
                             ELSE groups
                /\ issued' = IF o.status # "error"
                             THEN [issued EXCEPT ![groupName] = Append(@, o.e.id)]
                             ELSE issued
                /\ ret' = Result("addGroupExpense", groupName, <<>>, o.status, o.msg,
                                 IF o.status # "error" THEN o.e.id ELSE <<>>)

addGroupExpense(groupName, f, payer, members_str, shares_str) ==
    /\ calls < MaxCalls
    /\ calls' = calls + 1
    /\ IF groupName \notin DOMAIN groups
       THEN /\ ret' = Error("addGroupExpense", groupName, <<>>, "group not found")
            /\ UNCHANGED <<groups, groupCounters, issued>>
       ELSE LET g == groups[groupName]
                o == AddOutcome(g, groupCounters[groupName], f, payer, members_str, shares_str)
            IN  /\ groupCounters' = [groupCounters EXCEPT ![groupName] = @ + 1]
                /\ groups' = IF o.stored
                             THEN [groups EXCEPT ![groupName].expenses = Append(@, o.e)]
                             ELSE groups
                /\ issued' = IF o.status # "error"
                             THEN [issued EXCEPT ![groupName] = Append(@, o.e.id)]
                             ELSE issued
                /\ ret' = Result("addGroupExpense", groupName, <<>>, o.status, o.msg,
                                 IF o.status # "error" THEN o.e.id ELSE <<>>)

\* index of the first expense with this id, 0 when there is none (idx == -1)
FindIndex(expenses, expenseId) ==
    IF \E k \in 1..Len(expenses) : expenses[k].id = expenseId
    THEN CHOOSE k \in 1..Len(expenses) :
            /\ expenses[k].id = expenseId
            /\ \A m \in 1..(k - 1) : expenses[m].id # expenseId
    ELSE 0

\* EditOutcome storing a freshly built expense, its id left empty
EditOutcomeFreshExpense(g, e, f, payer, members_str, shares_str) ==
    LET members == splitPipe(members_str)
        e1 == [e EXCEPT !.id = <<>>, !.name = f.name, !.category = f.category, !.amount = f.amount,
                        !.payer = payer, !.date = f.date, !.members = members]
        parsed == IF StrEmpty(shares_str) THEN [ok |-> TRUE, shares |-> <<>>]
                  ELSE ParseShares(splitPipe(shares_str), <<>>)
        shares == IF parsed.shares = <<>>
                  THEN Assign(Len(members), f.amount \div Len(members))
                  ELSE parsed.shares
        total == SumSeq(shares)
    IN  IF members = <<>> THEN [e |-> e1, status |-> "error", msg |-> "members empty"]
        ELSE IF ~validateMembersInGroup(g, members)
        THEN [e |-> e1, status |-> "error", msg |-> "one or more members not in group"]
        ELSE IF ~parsed.ok
        THEN [e |-> [e1 EXCEPT !.shares = parsed.shares], status |-> "error",
              msg |-> "invalid shares format"]
        ELSE IF ~StrEmpty(shares_str) /\ Len(parsed.shares) # Len(members)
        THEN [e |-> [e1 EXCEPT !.shares = parsed.shares], status |-> "error",
              msg |-> "shares count mismatch members count"]
        ELSE IF ~approxEqual(total, f.amount)
        THEN [e |-> [e1 EXCEPT !.shares = shares], status |-> "warning",
              msg |-> "total shares do not match amount"]
        ELSE [e |-> [e1 EXCEPT !.shares = shares], status |-> "ok", msg |-> ""]

\* the expense editExpense leaves behind, and what it returns: the fields are
\* assigned through the reference into the stored vector as the handler goes,
\* so an early return keeps what was assigned before it
EditOutcome(g, e, f, payer, members_str, shares_str) ==
    LET members == splitPipe(members_str)
        e1 == [e EXCEPT !.name = f.name, !.category = f.category, !.amount = f.amount,
                        !.payer = payer, !.date = f.date, !.members = members]
        parsed == IF StrEmpty(shares_str) THEN [ok |-> TRUE, shares |-> <<>>]
                  ELSE ParseShares(splitPipe(shares_str), <<>>)
        shares == IF parsed.shares = <<>>
                  THEN Assign(Len(members), f.amount \div Len(members))
                  ELSE parsed.shares
        total == SumSeq(shares)
    IN  IF members = <<>> THEN [e |-> e1, status |-> "error", msg |-> "members empty"]
        ELSE IF ~validateMembersInGroup(g, members)
        THEN [e |-> e1, status |-> "error", msg |-> "one or more members not in group"]
        ELSE IF ~parsed.ok
        THEN [e |-> [e1 EXCEPT !.shares = parsed.shares], status |-> "error",
              msg |-> "invalid shares format"]
        ELSE IF ~StrEmpty(shares_str) /\ Len(parsed.shares) # Len(members)
        THEN [e |-> [e1 EXCEPT !.shares = parsed.shares], status |-> "error",
              msg |-> "shares count mismatch members count"]
        ELSE IF ~approxEqual(total, f.amount)
        THEN [e |-> [e1 EXCEPT !.shares = shares], status |-> "warning",
              msg |-> "total shares do not match amount"]
        ELSE [e |-> [e1 EXCEPT !.shares = shares], status |-> "ok", msg |-> ""]

editExpense(groupName, expenseId, f, payer, members_str, shares_str) ==
    /\ calls < MaxCalls
    /\ calls' = calls + 1
    /\ UNCHANGED <<groupCounters, issued>>
    /\ IF groupName \notin DOMAIN groups
       THEN /\ ret' = Error("editExpense", groupName, expenseId, "group not found")
            /\ UNCHANGED groups
       ELSE LET g == groups[groupName]
                idx == FindIndex(g.expenses, expenseId)
            IN  IF idx = 0
                THEN /\ ret' = Error("editExpense", groupName, expenseId, "expense not found")
                     /\ UNCHANGED groups
                ELSE LET o == EditOutcome(g, g.expenses[idx], f, payer, members_str, shares_str)
                     IN  /\ groups' = [groups EXCEPT ![groupName].expenses[idx] = o.e]
                         /\ ret' = Result("editExpense", groupName, expenseId,
                                          o.status, o.msg, <<>>)

\* RemoveMatching erasing from the first match to the end
RemoveFromMatch(expenses, expenseId) ==
    LET idx == FindIndex(expenses, expenseId)
    IN  IF idx = 0 THEN expenses ELSE SubSeq(expenses, 1, idx - 1)

\* remove_if + erase: the expenses whose id differs, in their order
RemoveMatching(expenses, expenseId) == SelectSeq(expenses, LAMBDA e : e.id # expenseId)

deleteExpense(groupName, expenseId) ==
    /\ calls < MaxCalls
    /\ calls' = calls + 1
    /\ UNCHANGED <<groupCounters, issued>>
    /\ IF groupName \notin DOMAIN groups
       THEN /\ ret' = Error("deleteExpense", groupName, expenseId, "group not found")
            /\ UNCHANGED groups
       ELSE LET rest == RemoveMatching(groups[groupName].expenses, expenseId)
            IN  IF Len(rest) = Len(groups[groupName].expenses)
                THEN /\ ret' = Error("deleteExpense", groupName, expenseId, "expense not found")
                     /\ UNCHANGED groups
                ELSE /\ groups' = [groups EXCEPT ![groupName].expenses = rest]
                     /\ ret' = Ok("deleteExpense", groupName, expenseId)

----------------------------------------------------------------------------
(* Settlement *)

\* e.shares[i]: past the end of the vector the read is undefined, and yields
\* whatever the memory there holds
ShareAt(e, i, junk) == IF i <= Len(e.shares) THEN e.shares[i] ELSE junk

\* an expense whose members outnumber its shares makes the balance loop read
\* shares past its end
ReadsPastEnd(expenses) == \E k \in 1..Len(expenses) : Len(expenses[k].members) > Len(expenses[k].shares)

\* for (i < e.members.size()) balance[e.members[i]] -= e.shares[i], from index i on
RECURSIVE ChargeMembers(_, _, _, _)
ChargeMembers(balance, e, i, junk) ==
    IF i > Len(e.members) THEN balance
    ELSE ChargeMembers(Put(balance, e.members[i], At(balance, e.members[i]) - ShareAt(e, i, junk)),
                       e, i + 1, junk)

\* ApplyExpenses without the credit to the payer
RECURSIVE ApplyExpensesNoCredit(_, _, _, _)
ApplyExpensesNoCredit(balance, expenses, k, junk) ==
    IF k > Len(expenses) THEN balance
    ELSE ApplyExpensesNoCredit(ChargeMembers(balance, expenses[k], 1, junk), expenses, k + 1, junk)

\* the loop over g.expenses, from the k-th expense on
RECURSIVE ApplyExpenses(_, _, _, _)
ApplyExpenses(balance, expenses, k, junk) ==
    IF k > Len(expenses) THEN balance
    ELSE LET e == expenses[k]
             charged == ChargeMembers(balance, e, 1, junk)
         IN  ApplyExpenses(Put(charged, e.payer, At(charged, e.payer) + e.amount),
                           expenses, k + 1, junk)

\* compute balances: 0.0 for every roster member, then every expense
ComputeBalances(g, junk) ==
    ApplyExpenses([m \in Range(g.members) |-> 0], g.expenses, 1, junk)

\* the keys of a std::map<string, double> in iteration (ascending) order
RECURSIVE KeysInOrder(_)
KeysInOrder(keys) ==
    IF keys = {} THEN <<>>
    ELSE LET least == CHOOSE a \in keys : \A b \in keys \ {a} : NameLess(a, b)
         IN  <<least>> \o KeysInOrder(keys \ {least})

\* the debtors: entries below -0.005, as (name, amount owed)
Debtors(balance) ==
    LET keys == KeysInOrder(DOMAIN balance)
        owing == SelectSeq(keys, LAMBDA n : balance[n] < -Dust)
    IN  [k \in 1..Len(owing) |-> [first |-> owing[k], second |-> -balance[owing[k]]]]

\* the creditors: entries above 0.005 (and not below -0.005), as (name, amount due)
Creditors(balance) ==
    LET keys == KeysInOrder(DOMAIN balance)
        due == SelectSeq(keys, LAMBDA n : ~(balance[n] < -Dust) /\ balance[n] > Dust)
    IN  [k \in 1..Len(due) |-> [first |-> due[k], second |-> balance[due[k]]]]

\* SortByName with the comparator reversed
RECURSIVE SortByNameDescending(_)
SortByNameDescending(v) ==
    IF v = <<>> THEN <<>>
    ELSE LET rest == SortByNameDescending(SubSeq(v, 1, Len(v) - 1))
             x == v[Len(v)]
             before == SelectSeq(rest, LAMBDA y : ~NameLess(y.first, x.first))
             after == SelectSeq(rest, LAMBDA y : NameLess(y.first, x.first))
         IN  before \o <<x>> \o after

\* std::sort by name ascending (insertion of each element before the first greater one)
RECURSIVE SortByName(_)
SortByName(v) ==
    IF v = <<>> THEN <<>>
    ELSE LET rest == SortByName(SubSeq(v, 1, Len(v) - 1))
             x == v[Len(v)]
             before == SelectSeq(rest, LAMBDA y : ~NameLess(x.first, y.first))
             after == SelectSeq(rest, LAMBDA y : NameLess(x.first, y.first))
         IN  before \o <<x>> \o after

\* GreedyStep paying the larger of the two remaining amounts
GreedyStepMax(st) ==
    LET d == st.debtors[st.i]
        c == st.creditors[st.j]
        pay == IF d.second > c.second THEN d.second ELSE c.second
        paid == pay > Dust
        d2 == IF paid THEN d.second - pay ELSE d.second
        c2 == IF paid THEN c.second - pay ELSE c.second
    IN  [debtors |-> [st.debtors EXCEPT ![st.i].second = d2],
         creditors |-> [st.creditors EXCEPT ![st.j].second = c2],
         i |-> IF d2 <= Dust THEN st.i + 1 ELSE st.i,
         j |-> IF c2 <= Dust THEN st.j + 1 ELSE st.j,
         settlements |-> IF paid
                         THEN Append(st.settlements, [from |-> d.first, to |-> c.first, amount |-> pay])
                         ELSE st.settlements,
         iters |-> st.iters + 1]

\* GreedyStep advancing both indexes in every iteration
GreedyStepBoth(st) ==
    LET d == st.debtors[st.i]
        c == st.creditors[st.j]
        pay == Min(d.second, c.second)
        paid == pay > Dust
        d2 == IF paid THEN d.second - pay ELSE d.second
        c2 == IF paid THEN c.second - pay ELSE c.second
    IN  [debtors |-> [st.debtors EXCEPT ![st.i].second = d2],
         creditors |-> [st.creditors EXCEPT ![st.j].second = c2],
         i |-> st.i + 1,
         j |-> st.j + 1,
         settlements |-> IF paid
                         THEN Append(st.settlements, [from |-> d.first, to |-> c.first, amount |-> pay])
                         ELSE st.settlements,
         iters |-> st.iters + 1]

\* GreedyStep with no single transfer above 20.00
GreedyStepCapped(st) ==
    LET d == st.debtors[st.i]
        c == st.creditors[st.j]
        pay == Min(Min(d.second, c.second), 20000)
        paid == pay > Dust
        d2 == IF paid THEN d.second - pay ELSE d.second
        c2 == IF paid THEN c.second - pay ELSE c.second
    IN  [debtors |-> [st.debtors EXCEPT ![st.i].second = d2],
         creditors |-> [st.creditors EXCEPT ![st.j].second = c2],
         i |-> IF d2 <= Dust THEN st.i + 1 ELSE st.i,
         j |-> IF c2 <= Dust THEN st.j + 1 ELSE st.j,
         settlements |-> IF paid
                         THEN Append(st.settlements, [from |-> d.first, to |-> c.first, amount |-> pay])
                         ELSE st.settlements,
         iters |-> st.iters + 1]

\* one iteration of the greedy loop on (debtors, creditors, i, j, settlements)
GreedyStep(st) ==
    LET d == st.debtors[st.i]
        c == st.creditors[st.j]
        pay == Min(d.second, c.second)
        paid == pay > Dust
        d2 == IF paid THEN d.second - pay ELSE d.second
        c2 == IF paid THEN c.second - pay ELSE c.second
    IN  [debtors |-> [st.debtors EXCEPT ![st.i].second = d2],
         creditors |-> [st.creditors EXCEPT ![st.j].second = c2],
         i |-> IF d2 <= Dust THEN st.i + 1 ELSE st.i,
         j |-> IF c2 <= Dust THEN st.j + 1 ELSE st.j,
         settlements |-> IF paid
                         THEN Append(st.settlements, [from |-> d.first, to |-> c.first, amount |-> pay])
                         ELSE st.settlements,
         iters |-> st.iters + 1]

\* while (i < debtors.size() && j < creditors.size()); indexes are 1-based here
RECURSIVE Greedy(_)
Greedy(st) ==
    IF st.i <= Len(st.debtors) /\ st.j <= Len(st.creditors) THEN Greedy(GreedyStep(st)) ELSE st

\* what calculateGroupSettlement computes for a group
Settlement(g, junk) ==
    LET balance == ComputeBalances(g, junk)
        debtors == SortByName(Debtors(balance))
        creditors == SortByName(Creditors(balance))
        final == Greedy([debtors |-> debtors, creditors |-> creditors, i |-> 1, j |-> 1,
                         settlements |-> <<>>, iters |-> 0])
    IN  [balance |-> balance, debtors |-> debtors, creditors |-> creditors, final |-> final]

\* what a read past the end of shares can yield: some number, one per call
JunkShares == {-7000, 0, 7000}

\* the values to consider for a settlement of this group: they matter only
\* when the balance loop reads past the end
JunkFor(groupName) ==
    IF groupName \in DOMAIN groups /\ ReadsPastEnd(groups[groupName].expenses)
    THEN JunkShares
    ELSE {0}

calculateGroupSettlement(groupName) ==
    /\ UNCHANGED <<groups, groupCounters, issued, calls>>
    /\ IF groupName \notin DOMAIN groups
       THEN ret' = Error("calculateGroupSettlement", groupName, <<>>, "group not found")
       ELSE \E junk \in JunkFor(groupName) :
                LET r == Settlement(groups[groupName], junk)
                IN  ret' = [op |-> "calculateGroupSettlement", group |-> groupName,
                            expenseId |-> <<>>, status |-> "ok", msg |-> "", id |-> <<>>,
                            junk |-> junk,
                            balance |-> r.balance, debtors |-> r.debtors,
                            creditors |-> r.creditors, settlements |-> r.final.settlements,
                            remainingDebtors |-> r.final.debtors,
                            remainingCreditors |-> r.final.creditors,
                            i |-> r.final.i, j |-> r.final.j, iters |-> r.final.iters]

----------------------------------------------------------------------------
(* The inputs the calls are made with *)

\* createGroup(groupName, members_str)
CreateRequests ==
    { <<"G", <<"Alice", "Bob", "Carol">>>>,
      <<"H", <<"Alice", "", "Bob">>>>,
      <<"", <<"Alice">>>> }

Lunch == [name |-> "lunch", category |-> "food", amount |-> 90000, date |-> "d1"]

Taxi == [name |-> "taxi", category |-> "travel", amount |-> 12, date |-> "d2"]

Req(f, payer, members_str, shares_str) ==
    [f |-> f, payer |-> payer, members_str |-> members_str, shares_str |-> shares_str]

\* the expense arguments of addGroupExpense and editExpense, one request or
\* more for each path of the handlers
Requests ==
    { Req(Lunch, "Alice", <<"Alice", "Bob", "Carol">>, <<>>),            \* equal split
      Req(Lunch, "Bob", <<"Alice", "", "Bob">>, <<"40", "40">>),         \* shares short of the amount
      Req(Lunch, "Carol", <<"Alice", "Bob">>, <<"60.003", "29.997">>),   \* explicit shares
      Req(Taxi, "Zed", <<"Bob">>, <<>>),                                 \* payer outside the roster
      Req(Taxi, "Alice", <<"Alice", "Bob">>, <<>>),                      \* shares below the dust threshold
      Req(Lunch, "Alice", <<>>, <<>>),                                   \* members empty
      Req(Taxi, "Bob", <<"Alice", "Zed">>, <<>>),                        \* member outside the roster
      Req(Lunch, "Alice", <<"Alice", "Bob">>, <<"45", "x">>),            \* a token stod rejects
      Req(Taxi, "Bob", <<"Alice", "Bob">>, <<"90">>) }                   \* count mismatch

ExpenseIds == {<<1>>, <<2>>, <<0, 1>>}

Next ==
    \/ \E c \in CreateRequests : createGroup(c[1], c[2])
    \/ \E n \in GroupNames, r \in Requests :
            addGroupExpense(n, r.f, r.payer, r.members_str, r.shares_str)
    \/ \E n \in GroupNames, id \in ExpenseIds, r \in Requests :
            editExpense(n, id, r.f, r.payer, r.members_str, r.shares_str)
    \/ \E n \in GroupNames, id \in ExpenseIds : deleteExpense(n, id)
    \/ \E n \in GroupNames : calculateGroupSettlement(n)

Spec == Init /\ [][Next]_vars
----------------------------------------------------------------------------
(* Vocabulary of the properties *)

\* sum of f over the set S
RECURSIVE SumOver(_, _)
SumOver(S, f) ==
    IF S = {} THEN 0
    ELSE LET x == CHOOSE y \in S : TRUE IN f[x] + SumOver(S \ {x}, f)

Roster(g) == Range(g.members)

\* the last call was a settlement of an existing group
Settled == ret.op = "calculateGroupSettlement" /\ ret.status = "ok"

SettledGroup == groups[ret.group]

\* the shares the balance loop charges for one expense
Charged(e, junk) == SumSeq([i \in 1..Len(e.members) |-> ShareAt(e, i, junk)])

\* amounts credited minus shares charged, over the expenses of a group
Discrepancy(g, junk) ==
    SumSeq([k \in 1..Len(g.expenses) |-> g.expenses[k].amount - Charged(g.expenses[k], junk)])

\* every payer and every charged member of the group is on its roster
AllOnRoster(g) ==
    \A k \in 1..Len(g.expenses) :
        /\ g.expenses[k].payer \in Roster(g)
        /\ Range(g.expenses[k].members) \subseteq Roster(g)

TransferTotal == SumSeq([k \in 1..Len(ret.settlements) |-> ret.settlements[k].amount])

Total(list) == SumSeq([k \in 1..Len(list) |-> list[k].second])

\* the balance of n after the returned transfers are applied
Applied(n) ==
    ret.balance[n]
    + SumSeq([k \in 1..Len(ret.settlements) |->
                IF ret.settlements[k].from = n THEN ret.settlements[k].amount ELSE 0])
    - SumSeq([k \in 1..Len(ret.settlements) |->
                IF ret.settlements[k].to = n THEN ret.settlements[k].amount ELSE 0])

AllExpenses == {<<g, k>> \in (DOMAIN groups) \X (1..MaxCalls) : k <= Len(groups[g].expenses)}

\* the group's stored expenses are as sections 3 and 4.1 of the design want
\* them: payer and members on the roster, one share for each member
WellFormed(g) ==
    /\ AllOnRoster(g)
    /\ \A k \in 1..Len(g.expenses) :
            /\ g.expenses[k].members # <<>>
            /\ Len(g.expenses[k].shares) = Len(g.expenses[k].members)

----------------------------------------------------------------------------
(* C1 *)

\* C1 (as claimed): the balances of a settlement, summed over the roster of
\* the group, are within 0.01 of zero.  Stated for the groups whose expenses
\* are well formed, where no unvalidated payer or half-applied edit is involved.
ClosedLedger ==
    (Settled /\ WellFormed(SettledGroup))
        => Abs(SumOver(Roster(SettledGroup), ret.balance)) <= Eps

\* C1 (amended): the balances summed over every entry of the balance map equal
\* the amounts credited minus the shares charged; the roster sum is within 0.01
\* of zero whenever every payer and member is on the roster and the amounts
\* differ from the shares charged by at most 0.01 in total.
LedgerConservation ==
    Settled =>
        /\ SumOver(DOMAIN ret.balance, ret.balance) = Discrepancy(SettledGroup, ret.junk)
        /\ (AllOnRoster(SettledGroup) /\ Abs(Discrepancy(SettledGroup, ret.junk)) <= Eps)
                => Abs(SumOver(Roster(SettledGroup), ret.balance)) <= Eps

LedgerConservationWitness ==
    /\ Settled
    /\ Len(SettledGroup.expenses) >= 2
    /\ AllOnRoster(SettledGroup)
    /\ Abs(Discrepancy(SettledGroup, ret.junk)) <= Eps
    /\ \E n \in Roster(SettledGroup) : ret.balance[n] > Dust

----------------------------------------------------------------------------
(* C2 *)

----------------------------------------------------------------------------
(* C3 *)

\* C3 (as claimed): once the returned transfers are applied, every roster
\* member's balance is within 0.01 of zero.  Stated for the groups whose
\* expenses are well formed.
PlanZeroesBalances ==
    (Settled /\ WellFormed(SettledGroup))
        => \A n \in Roster(SettledGroup) : Abs(Applied(n)) <= Eps

\* C3 (amended): once the returned transfers are applied, no balance has
\* changed sign or grown, and one side is cleared: no balance is below -0.005
\* or none is above 0.005.
PlanClearsOneSide ==
    Settled =>
        /\ \/ \A n \in DOMAIN ret.balance : Applied(n) >= -Dust
           \/ \A n \in DOMAIN ret.balance : Applied(n) <= Dust
        /\ \A n \in DOMAIN ret.balance :
                /\ ret.balance[n] >= 0 => (0 <= Applied(n) /\ Applied(n) <= ret.balance[n])
                /\ ret.balance[n] <= 0 => (ret.balance[n] <= Applied(n) /\ Applied(n) <= 0)

PlanClearsOneSideWitness ==
    /\ Settled
    /\ Len(ret.settlements) >= 2
    /\ \E n \in DOMAIN ret.balance : Abs(Applied(n)) > Eps

----------------------------------------------------------------------------
(* C4, C5, C6 *)

\* C4: every stored expense has as many shares as members.
SharesParallelMembers ==
    \A x \in AllExpenses :
        Len(groups[x[1]].expenses[x[2]].shares) = Len(groups[x[1]].expenses[x[2]].members)

\* C5: the members of every stored expense are non-empty and all on the roster
\* of its group.
MembersValid ==
    \A x \in AllExpenses :
        /\ groups[x[1]].expenses[x[2]].members # <<>>
        /\ Range(groups[x[1]].expenses[x[2]].members) \subseteq Roster(groups[x[1]])

\* C6: the payer of every stored expense is on the roster of its group, and
\* so is every from and to of a settlement.
PayerInRoster ==
    /\ \A x \in AllExpenses : groups[x[1]].expenses[x[2]].payer \in Roster(groups[x[1]])
    /\ Settled => \A k \in 1..Len(ret.settlements) :
                        /\ ret.settlements[k].from \in Roster(SettledGroup)
                        /\ ret.settlements[k].to \in Roster(SettledGroup)

----------------------------------------------------------------------------
(* C7, C8 *)

\* C7: the ids returned by the successful adds of a group are strictly
\* increasing, so none is returned twice, also after a delete; the stored
\* expenses carry distinct ids among them.
IdsNeverReused ==
    \A g \in DOMAIN groups :
        /\ \A a, b \in 1..Len(issued[g]) :
                a < b => IdValue(issued[g][a]) < IdValue(issued[g][b])
        /\ \A k, m \in 1..Len(groups[g].expenses) :
                k # m => groups[g].expenses[k].id # groups[g].expenses[m].id
        /\ \A k \in 1..Len(groups[g].expenses) : groups[g].expenses[k].id \in Range(issued[g])

\* an add succeeded after an earlier expense of the group was deleted
IdsNeverReusedWitness ==
    \E g \in DOMAIN groups :
        /\ Len(issued[g]) >= 2
        /\ Len(groups[g].expenses) < Len(issued[g])
        /\ ret.op = "addGroupExpense" /\ ret.group = g /\ ret.status # "error"
        /\ ret.id = issued[g][Len(issued[g])]

\* C8: the n-th expense successfully stored in a group receives id n.
SequentialIds ==
    \A g \in DOMAIN groups :
        \A n \in 1..Len(issued[g]) : IdValue(issued[g][n]) = n

----------------------------------------------------------------------------
(* C9, C10 *)

\* C9: an addGroupExpense that returns an error leaves the expense list of
\* every group as it was, and creates no group.
RejectedAddStoresNothing ==
    [][(ret'.op = "addGroupExpense" /\ ret'.status = "error" /\ calls' = calls + 1)
            => /\ DOMAIN groups' = DOMAIN groups
               /\ \A g \in DOMAIN groups : groups'[g].expenses = groups[g].expenses]_vars

\* an add was rejected for its share count in a group that holds expenses
RejectedAddStoresNothingWitness ==
    /\ ret.op = "addGroupExpense"
    /\ ret.status = "error"
    /\ ret.msg = "shares count mismatch members count"
    /\ ret.group \in DOMAIN groups
    /\ groups[ret.group].expenses # <<>>

----------------------------------------------------------------------------
(* C11 *)

\* the expense an edit request stores when it passes validation, shares aside
Requested(e, r) ==
    /\ e.name = r.f.name /\ e.category = r.f.category /\ e.amount = r.f.amount
    /\ e.date = r.f.date /\ e.payer = r.payer
    /\ e.members = splitPipe(r.members_str)
    /\ Len(e.shares) = Len(e.members)

\* C11: an editExpense that succeeds (with or without a warning) replaces the
\* fields of the expense with the given id in place: same id, same position,
\* same number of expenses, every other expense, every other group and every
\* id counter as before.
EditReplacesInPlace ==
    [][(ret'.op = "editExpense" /\ ret'.status # "error" /\ calls' = calls + 1)
            => /\ ret'.group \in DOMAIN groups
               /\ DOMAIN groups' = DOMAIN groups
               /\ groupCounters' = groupCounters
               /\ \A g \in DOMAIN groups \ {ret'.group} : groups'[g] = groups[g]
               /\ groups'[ret'.group].members = groups[ret'.group].members
               /\ LET old == groups[ret'.group].expenses
                      new == groups'[ret'.group].expenses
                  IN  /\ Len(new) = Len(old)
                      /\ \E idx \in 1..Len(old) :
                            /\ old[idx].id = ret'.expenseId
                            /\ new[idx].id = ret'.expenseId
                            /\ \E r \in Requests : Requested(new[idx], r)
                            /\ \A k \in 1..Len(old) : k # idx => new[k] = old[k]]_vars

\* the first of two expenses was edited, and took another name
EditReplacesInPlaceWitness ==
    /\ ret.op = "editExpense"
    /\ ret.status # "error"
    /\ Len(groups[ret.group].expenses) >= 2
    /\ groups[ret.group].expenses[1].id = ret.expenseId
    /\ groups[ret.group].expenses[1].name # groups[ret.group].expenses[2].name
----------------------------------------------------------------------------
(* C12 *)

\* C12: calculateGroupSettlement changes no group, roster, expense or id
\* counter, and a second call on the unchanged group returns the transfer
\* list the first one returned.
SettlementIdempotent ==
    [][(ret'.op = "calculateGroupSettlement" /\ calls' = calls)
            => /\ groups' = groups
               /\ groupCounters' = groupCounters
               /\ (Settled /\ ret'.status = "ok" /\ ret'.group = ret.group)
                        => ret'.settlements = ret.settlements]_vars
----------------------------------------------------------------------------
(* C13, C14 *)

\* C13: a settlement has at most len(debtors) + len(creditors) - 1 transfers,
\* and none when there is no debtor or no creditor.
TransferCountBounded ==
    Settled =>
        IF ret.debtors = <<>> \/ ret.creditors = <<>>
        THEN ret.settlements = <<>>
        ELSE Len(ret.settlements) <= Len(ret.debtors) + Len(ret.creditors) - 1

\* two debtors and two creditors, settled in three transfers
TransferCountBoundedWitness ==
    /\ Settled
    /\ Len(ret.debtors) = 2
    /\ Len(ret.creditors) = 2
    /\ Len(ret.settlements) = 3

\* what the transfers before the k-th took from (or gave to) the member n
PaidBefore(k, n) ==
    SumSeq([m \in 1..(k - 1) |->
                IF ret.settlements[m].from = n THEN ret.settlements[m].amount ELSE 0])

ReceivedBefore(k, n) ==
    SumSeq([m \in 1..(k - 1) |->
                IF ret.settlements[m].to = n THEN ret.settlements[m].amount ELSE 0])

\* C14: every transfer is above the 0.005 dust threshold, goes from a member
\* with a negative balance to one with a positive balance, and is at most
\* what the sender still owes and at most what the receiver is still due.
TransfersWithinRemaining ==
    Settled =>
        \A k \in 1..Len(ret.settlements) :
            LET t == ret.settlements[k]
            IN  /\ t.amount > Dust
                /\ ret.balance[t.from] < 0
                /\ ret.balance[t.to] > 0
                /\ t.amount <= -ret.balance[t.from] - PaidBefore(k, t.from)
                /\ t.amount <= ret.balance[t.to] - ReceivedBefore(k, t.to)

\* a debtor paid in two transfers, the second one after a first
TransfersWithinRemainingWitness ==
    /\ Settled
    /\ \E k \in 2..Len(ret.settlements) :
            /\ PaidBefore(k, ret.settlements[k].from) > 0
            /\ ret.settlements[k].amount < -ret.balance[ret.settlements[k].from]
----------------------------------------------------------------------------
(* C15 *)

\* the group holds one expense: 90 paid by Alice, split equally over Alice,
\* Bob and Carol
TripExample(g) ==
    /\ Len(g.expenses) = 1
    /\ g.expenses[1].amount = 90000
    /\ g.expenses[1].payer = "Alice"
    /\ g.expenses[1].members = <<"Alice", "Bob", "Carol">>
    /\ g.expenses[1].shares = <<30000, 30000, 30000>>

\* C15: the from names of a settlement are in non-decreasing name order, so
\* are its to names, and no (from, to) pair occurs twice; the one expense of
\* 90 paid by Alice and split equally over Alice, Bob and Carol yields exactly
\* Bob -> Alice 30, Carol -> Alice 30.
CanonicalGreedyOrder ==
    Settled =>
        /\ \A k, m \in 1..Len(ret.settlements) :
                k < m =>
                    /\ ~NameLess(ret.settlements[m].from, ret.settlements[k].from)
                    /\ ~NameLess(ret.settlements[m].to, ret.settlements[k].to)
                    /\ ~(/\ ret.settlements[m].from = ret.settlements[k].from
                         /\ ret.settlements[m].to = ret.settlements[k].to)
        /\ TripExample(SettledGroup)
                => ret.settlements = <<[from |-> "Bob", to |-> "Alice", amount |-> 30000],
                                       [from |-> "Carol", to |-> "Alice", amount |-> 30000]>>

CanonicalGreedyOrderWitness ==
    /\ Settled
    /\ TripExample(SettledGroup)
    /\ Len(ret.settlements) = 2
----------------------------------------------------------------------------
(* C16 *)

\* C16: an addGroupExpense that passes validation has appended the expense
\* under a fresh id and returns that id; the result carries a warning exactly
\* when the shares differ from the amount by more than 0.01.
WarningStillStores ==
    (ret.op = "addGroupExpense" /\ ret.status # "error") =>
        LET expenses == groups[ret.group].expenses
            e == expenses[Len(expenses)]
        IN  /\ expenses # <<>>
            /\ e.id = ret.id
            /\ \A k \in 1..(Len(expenses) - 1) : expenses[k].id # ret.id
            /\ Len(e.shares) = Len(e.members)
            /\ (ret.status = "warning") = (Abs(SumSeq(e.shares) - e.amount) > Eps)
            /\ (ret.status = "ok") = (Abs(SumSeq(e.shares) - e.amount) <= Eps)

\* an add returned a warning, in a group that held an expense already
WarningStillStoresWitness ==
    /\ ret.op = "addGroupExpense"
    /\ ret.status = "warning"
    /\ Len(groups[ret.group].expenses) >= 2
----------------------------------------------------------------------------
(* C17 *)

\* C17: addGroupExpense, editExpense and deleteExpense called for a group,
\* whatever they return, leave every other group (roster, expenses) and its id
\* counter as they were, and create no group and no counter entry.
NoCrossGroupEffects ==
    [][(ret'.op \in {"addGroupExpense", "editExpense", "deleteExpense"} /\ calls' = calls + 1)
            => /\ DOMAIN groups' = DOMAIN groups
               /\ DOMAIN groupCounters' = DOMAIN groupCounters
               /\ \A h \in DOMAIN groups \ {ret'.group} :
                        /\ groups'[h] = groups[h]
                        /\ groupCounters'[h] = groupCounters[h]
               /\ ret'.group \in DOMAIN groups
                        => groups'[ret'.group].members = groups[ret'.group].members]_vars

\* an expense was added to one group while another group holds expenses
NoCrossGroupEffectsWitness ==
    /\ ret.op = "addGroupExpense"
    /\ ret.status = "ok"
    /\ \E h \in DOMAIN groups \ {ret.group} : groups[h].expenses # <<>>
----------------------------------------------------------------------------
(* C18 *)

\* C18: a createGroup with an empty or an existing name returns an error and
\* changes no group and no counter; one with a new, non-empty name adds that
\* group, without expenses and with its counter at 1, and changes no other.
CreateGroupGuarded ==
    [][(ret'.op = "createGroup" /\ calls' = calls + 1)
            => IF ret'.group = "" \/ ret'.group \in DOMAIN groups
               THEN /\ ret'.status = "error"
                    /\ groups' = groups
                    /\ groupCounters' = groupCounters
               ELSE /\ ret'.status = "ok"
                    /\ DOMAIN groups' = DOMAIN groups \cup {ret'.group}
                    /\ DOMAIN groupCounters' = DOMAIN groupCounters \cup {ret'.group}
                    /\ groups'[ret'.group].name = ret'.group
                    /\ groups'[ret'.group].expenses = <<>>
                    /\ groupCounters'[ret'.group] = 1
                    /\ \A h \in DOMAIN groups :
                            groups'[h] = groups[h] /\ groupCounters'[h] = groupCounters[h]]_vars

\* a second createGroup of a group that holds an expense was refused
CreateGroupGuardedWitness ==
    /\ ret.op = "createGroup"
    /\ ret.status = "error"
    /\ ret.msg = "group already exists"
    /\ groups[ret.group].expenses # <<>>
    /\ groupCounters[ret.group] > 1
----------------------------------------------------------------------------
(* C19 *)

\* C19: an editExpense that returns an error leaves every stored expense with
\* the fields it had (name, category, amount, payer, members, shares, date),
\* and so the settlement of the group as it was.
FailedEditChangesNothing ==
    [][(ret'.op = "editExpense" /\ ret'.status = "error" /\ calls' = calls + 1)
            => groups' = groups]_vars
----------------------------------------------------------------------------
(* C20 *)

\* the loop condition of the greedy matching
LoopRuns(st) == st.i <= Len(st.debtors) /\ st.j <= Len(st.creditors)

\* from st on, every iteration finds the current debtor and creditor above the
\* dust threshold, records a transfer, brings one of the two to zero and
\* advances an index, and at most fuel iterations are left
RECURSIVE EveryIterationAdvances(_, _)
EveryIterationAdvances(st, fuel) ==
    IF ~LoopRuns(st) THEN TRUE
    ELSE /\ fuel > 0
         /\ st.debtors[st.i].second > Dust
         /\ st.creditors[st.j].second > Dust
         /\ LET n == GreedyStep(st)
            IN  /\ n.i > st.i \/ n.j > st.j
                /\ Len(n.settlements) = Len(st.settlements) + 1
                /\ n.debtors[st.i].second = 0 \/ n.creditors[st.j].second = 0
                /\ EveryIterationAdvances(n, fuel - 1)

====
